---------------------------- MODULE Spec2Model ----------------------------
(***************************************************************************)
(* Markdown -> Google Docs batchUpdate requests.                           *)
(*                                                                         *)
(* The repository holds several versions of processMarkdown.  A run of the *)
(* model is one call of one of them, chosen by converter:                  *)
(*   "lines"   the line-based convertMarkdownToRequests with its helper    *)
(*             processInlineFormatting; a step is one iteration of its     *)
(*             for-loop over the source lines;                             *)
(*   "marked"  the version that hands a renderer object to the marked      *)
(*             library, collects elements in the renderer's callbacks and  *)
(*             then turns the elements into requests; a step is one        *)
(*             callback or one iteration of the loop over the elements.    *)
(* A string is a sequence of one-character strings, so String.length is    *)
(* Len and every regular expression of the source is an operator over such *)
(* sequences.  JavaScript offsets are 0-based; sequence positions here are *)
(* 1-based, and every operator says which of the two it returns.           *)
(***************************************************************************)
EXTENDS Integers, Sequences, FiniteSets, TLC

VARIABLES
    converter,  \* which program runs: "lines", "marked" and "class" are the
                \* three versions of processMarkdown, "http" is the handler
    lines,      \* "lines": markdown.split('\n')
    elements,   \* "marked", "class": the elements the callbacks collected
    listOrder,  \* "marked": renderer.listOrder, as walkTokens set it;
                \* "class": this.orderedList, as list() set it
    i,          \* the loop's position (0-based): the for-loop's i over the
                \* lines, the for-of's iterator over the elements
    index,      \* the running cursor into the document
    requests,   \* the requests pushed so far
    emittedAt,  \* history, parallel to requests: where each one was pushed
    thrown,     \* history: the lines whose italic detection threw
    consumed,   \* history: the lines the loop read, in order, and as what
    req,        \* "http": req.body
    res,        \* "http": the status the handler responded with
    calls,      \* "http": history of the collaborators the handler invoked
    pc          \* "lines": "loop", then "done" once the function returned;
                \* "marked", "class": "parse" while marked.parse runs, "emit"
                \* in the loop over the elements, then "done";
                \* "http": "handler", "processing", "creating", "responded"

vars == <<converter, lines, elements, listOrder, i, index, requests, emittedAt,
          thrown, consumed, req, res, calls, pc>>

\* The handler's variables and the histories of the line-based converter.
http == <<req, res, calls>>

history == <<thrown, consumed>>

(***************************************************************************)
(* Characters and strings                                                  *)
(***************************************************************************)
NL == "\n"
CR == "\r"

\* The backquote character U+0060.  A TLA+ string cannot hold it, so this
\* symbol stands for it; like every character it is one element of a string.
BQ == "BQ"

\* What \s matches and String.prototype.trim strips (of the characters used).
WhiteSpace == {" ", "\t", CR, NL}

Digits == {"0", "1", "2", "3", "4", "5", "6", "7", "8", "9"}

\* [a-zA-Z0-9] restricted to the letters the inputs use.
AlphaNum == Digits \cup {"a", "b", "c", "j", "s", "w", "o", "g", "x", "u", "T"}

\* What . matches: anything but a line terminator.
IsDot(c) == c \notin {NL, CR}

AllDot(s, from, to) == \A k \in from..to : IsDot(s[k])

Min(S) == CHOOSE m \in S : \A n \in S : m <= n

\* The first position >= from (1-based) whose character is not in set,
\* Len(s)+1 when the run reaches the end of s.
RunEnd(s, from, set) ==
    Min({k \in from..(Len(s) + 1) :
            /\ (k = Len(s) + 1 \/ s[k] \notin set)
            /\ \A m \in from..(k - 1) : s[m] \in set})

\* String.prototype.trim
Trim(s) ==
    LET keep == {k \in 1..Len(s) : s[k] \notin WhiteSpace}
    IN  IF keep = {} THEN <<>>
        ELSE SubSeq(s, Min(keep), CHOOSE m \in keep : \A n \in keep : n <= m)

\* s.startsWith(fence), the fence being three backquotes
StartsWithFence(s) ==
    /\ Len(s) >= 3
    /\ s[1] = BQ /\ s[2] = BQ /\ s[3] = BQ

RECURSIVE Flatten(_)
\* The concatenation of a sequence of strings.
Flatten(ss) == IF ss = <<>> THEN <<>> ELSE Head(ss) \o Flatten(Tail(ss))

(***************************************************************************)
(* The block-level regular expressions                                     *)
(***************************************************************************)
NoMatch == [matched |-> FALSE]

\* The common tail of the three block patterns, \s+ then a capture of .+ up
\* to $, tried at position pos (1-based): the position where the capture
\* starts, 0 when the tail does not match.  \s+ is greedy and gives one
\* character back when the white space runs to the end.
TailStart(line, pos) ==
    LET e == RunEnd(line, pos, WhiteSpace)
    IN  IF e = pos THEN 0
        ELSE IF e <= Len(line)
             THEN IF AllDot(line, e, Len(line)) THEN e ELSE 0
             ELSE IF e - pos >= 2 /\ IsDot(line[Len(line)]) THEN Len(line) ELSE 0

\* line.match(headingPattern): ^, one to six #, the tail.
HeadingMatch(line) ==
    LET h == RunEnd(line, 1, {"#"}) - 1
        t == IF h \in 1..6 THEN TailStart(line, h + 1) ELSE 0
    IN  IF t = 0 THEN NoMatch
        ELSE [matched |-> TRUE, level |-> h, text |-> SubSeq(line, t, Len(line))]

\* line.match(bulletPattern): ^, a capture of \s* (the indent), -, the tail.
BulletedListMatch(line) ==
    LET d == RunEnd(line, 1, WhiteSpace)
        t == IF d <= Len(line) /\ line[d] = "-" THEN TailStart(line, d + 1) ELSE 0
    IN  IF t = 0 THEN NoMatch
        ELSE [matched |-> TRUE, indent |-> d - 1, text |-> SubSeq(line, t, Len(line))]

\* line.match(numberPattern): ^, a capture of \s* (the indent), \d+, a dot,
\* the tail.
NumberedListMatch(line) ==
    LET d == RunEnd(line, 1, WhiteSpace)
        e == RunEnd(line, d, Digits)
        t == IF e > d /\ e <= Len(line) /\ line[e] = "."
             THEN TailStart(line, e + 1) ELSE 0
    IN  IF t = 0 THEN NoMatch
        ELSE [matched |-> TRUE, indent |-> d - 1, text |-> SubSeq(line, t, Len(line))]

\* line.trim().match(fencePattern), for a trimmed line that starts with the
\* fence: everything after the three backquotes, up to $, is alphanumeric.
CodeStartMatch(trimmed) ==
    \A k \in 4..Len(trimmed) : trimmed[k] \in AlphaNum

(***************************************************************************)
(* The requests                                                            *)
(***************************************************************************)
InsertText(text, at) ==
    [op |-> "insertText", text |-> text, index |-> at]

UpdateParagraphStyle(style, from, to, fields) ==
    [op |-> "updateParagraphStyle", paragraphStyle |-> style,
     startIndex |-> from, endIndex |-> to, fields |-> fields]

UpdateTextStyle(style, from, to, fields) ==
    [op |-> "updateTextStyle", textStyle |-> style,
     startIndex |-> from, endIndex |-> to, fields |-> fields]

CreateParagraphBullets(from, to, preset) ==
    [op |-> "createParagraphBullets", startIndex |-> from, endIndex |-> to,
     bulletPreset |-> preset]

HasRange(r) == r.op # "insertText"

\* The template string of the heading style name, HEADING_ then the level.
HeadingStyleName(level) ==
    CASE level = 1 -> "HEADING_1" [] level = 2 -> "HEADING_2"
      [] level = 3 -> "HEADING_3" [] level = 4 -> "HEADING_4"
      [] level = 5 -> "HEADING_5" [] level = 6 -> "HEADING_6"

\* Points of indentStart per character of list indent.
IndentUnit == 18

Indentation(indent) ==
    [indentStart |-> [magnitude |-> indent * IndentUnit, unit |-> "PT"],
     indentFirstLine |-> [magnitude |-> 0, unit |-> "PT"]]

CodeStyle ==
    [fontFamily |-> "Courier New", backgroundColor |-> "rgb(0.95,0.95,0.95)"]

(***************************************************************************)
(* processInlineFormatting: the three global regular expressions.  Each    *)
(* exec operator takes lastIndex (0-based) and returns the next match:     *)
(* index (0-based, match.index), the captures, and the new lastIndex.      *)
(***************************************************************************)
Emphasis == {"*", "_"}

\* boldRegex: a doubled * or _, a lazy .*?, the same doubled delimiter.
\* Positions (1-based) of the first character of a closing delimiter for an
\* opening one at p.
BoldCloses(text, p) ==
    {q \in (p + 2)..(Len(text) - 1) :
        /\ text[q] = text[p] /\ text[q + 1] = text[p]
        /\ AllDot(text, p + 2, q - 1)}

BoldAt(text, p) ==
    /\ p + 1 <= Len(text)
    /\ text[p] \in Emphasis /\ text[p + 1] = text[p]
    /\ BoldCloses(text, p) # {}

BoldExec(text, lastIndex) ==
    LET ps == {p \in (lastIndex + 1)..Len(text) : BoldAt(text, p)}
    IN  IF ps = {} THEN NoMatch
        ELSE LET p == Min(ps)
                 q == Min(BoldCloses(text, p))
             IN  [matched |-> TRUE, index |-> p - 1,
                  g1 |-> SubSeq(text, p, p + 1),
                  g2 |-> SubSeq(text, p + 2, q - 1),
                  lastIndex |-> q + 1]

\* italicRegex: not preceded by * or _; one * or _ (group 1); not followed by
\* the same character; a lazy .*?; group 1 again, not followed by itself.
ItalicCloses(text, p) ==
    {q \in (p + 1)..Len(text) :
        /\ text[q] = text[p]
        /\ (q = Len(text) \/ text[q + 1] # text[p])
        /\ AllDot(text, p + 1, q - 1)}

ItalicAt(text, p) ==
    /\ (p = 1 \/ text[p - 1] \notin Emphasis)
    /\ text[p] \in Emphasis
    /\ (p = Len(text) \/ text[p + 1] # text[p])
    /\ ItalicCloses(text, p) # {}

ItalicExec(text, lastIndex) ==
    LET ps == {p \in (lastIndex + 1)..Len(text) : ItalicAt(text, p)}
    IN  IF ps = {} THEN NoMatch
        ELSE LET p == Min(ps)
                 q == Min(ItalicCloses(text, p))
             IN  [matched |-> TRUE, index |-> p - 1,
                  g1 |-> SubSeq(text, p, p),
                  g2 |-> SubSeq(text, p + 1, q - 1),
                  lastIndex |-> q]

\* linkRegex: [, a lazy .*?, ], (, a lazy .*?, ).
\* Positions of a ) that closes a link whose ] is at q.
LinkEnds(text, q) ==
    {r \in (q + 2)..Len(text) : text[r] = ")" /\ AllDot(text, q + 2, r - 1)}

\* Positions of a ] that closes the display text opened by [ at p.
LinkCloses(text, p) ==
    {q \in (p + 1)..(Len(text) - 1) :
        /\ text[q] = "]" /\ text[q + 1] = "("
        /\ AllDot(text, p + 1, q - 1)
        /\ LinkEnds(text, q) # {}}

LinkAt(text, p) == text[p] = "[" /\ LinkCloses(text, p) # {}

LinkExec(text, lastIndex) ==
    LET ps == {p \in (lastIndex + 1)..Len(text) : LinkAt(text, p)}
    IN  IF ps = {} THEN NoMatch
        ELSE LET p == Min(ps)
                 q == Min(LinkCloses(text, p))
                 r == Min(LinkEnds(text, q))
             IN  [matched |-> TRUE, index |-> p - 1,
                  g1 |-> SubSeq(text, p + 1, q - 1),
                  g2 |-> SubSeq(text, q + 2, r - 1),
                  lastIndex |-> r]

\* matchStart of a bold match: match.index + match[1].length
BoldMatchStart(m) == m.index + Len(m.g1)

\* matchStart of an italic match: match.index + 1
ItalicMatchStart(m) == m.index + 1

\* linkStart: match.index + 1
LinkStart(m) == m.index + 1

RECURSIVE BoldRequests(_, _, _)
\* The while loop over boldRegex.exec(text), from lastIndex on.
BoldRequests(text, startIndex, lastIndex) ==
    LET m == BoldExec(text, lastIndex)
    IN  IF ~m.matched THEN <<>>
        ELSE LET matchStart == BoldMatchStart(m)
                 matchEnd == matchStart + Len(m.g2)
             IN  <<UpdateTextStyle([bold |-> TRUE], startIndex + matchStart,
                                   startIndex + matchEnd, "bold")>>
                 \o BoldRequests(text, startIndex, m.lastIndex)

RECURSIVE ItalicRequests(_, _, _)
\* The while loop over italicRegex.exec(text), from lastIndex on.
ItalicRequests(text, startIndex, lastIndex) ==
    LET m == ItalicExec(text, lastIndex)
    IN  IF ~m.matched THEN <<>>
        ELSE LET matchStart == ItalicMatchStart(m)
                 matchEnd == matchStart + Len(m.g2)
             IN  <<UpdateTextStyle([italic |-> TRUE], startIndex + matchStart,
                                   startIndex + matchEnd, "italic")>>
                 \o ItalicRequests(text, startIndex, m.lastIndex)

RECURSIVE LinkRequests(_, _, _)
\* The while loop over linkRegex.exec(text), from lastIndex on.
LinkRequests(text, startIndex, lastIndex) ==
    LET m == LinkExec(text, lastIndex)
    IN  IF ~m.matched THEN <<>>
        ELSE LET linkStart == LinkStart(m)
                 linkEnd == linkStart + Len(m.g1)
             IN  <<UpdateTextStyle([link |-> [url |-> m.g2]],
                                   startIndex + linkStart,
                                   startIndex + linkEnd, "link")>>
                 \o LinkRequests(text, startIndex, m.lastIndex)

\* The calls of italicRegex.exec(text) the italic loop makes when none
\* throws: one for every match and the last one, which returns null.
ItalicCalls(text) == Len(ItalicRequests(text, 0, 0)) + 1

\* The faults of a call of processInlineFormatting: throwAt = 0 when no
\* call of italicRegex.exec throws, n when the n-th one does.
Throws(text) == 0..ItalicCalls(text)

\* The italic loop inside its try: the requests it pushed when the catch
\* block is entered, or all of them when nothing was thrown.  What was
\* pushed before the throw stays in requests.
ItalicTry(text, startIndex, throwAt) ==
    LET all == ItalicRequests(text, startIndex, 0)
    IN  IF throwAt = 0 THEN all ELSE SubSeq(all, 1, throwAt - 1)

\* What processInlineFormatting(requests, text, startIndex) pushes.
ProcessInlineFormatting(text, startIndex, throwAt) ==
    BoldRequests(text, startIndex, 0)
        \o ItalicTry(text, startIndex, throwAt)
        \o LinkRequests(text, startIndex, 0)


(***************************************************************************)
(* The inputs.  markdown.split('\n') is a non-empty sequence of lines,     *)
(* none holding a line feed.  The documents checked are: every document of *)
(* up to MaxLines lines of BlockPool (one line or more of every block      *)
(* kind), every line of InlinePool alone and after up to MaxPrefix lines   *)
(* of BlockPool, every one-line document of up to MaxLen characters of     *)
(* Alphabet, and the documents of SpecialDocs.                             *)
(***************************************************************************)
MaxLines == 4
MaxPrefix == 1
MaxLen == 3

Alphabet ==
    {"#", " ", "-", "1", ".", BQ, "*", "_", "[", "]", "(", ")", "a"}

\* Lines of every block kind.
BlockPool ==
    { <<>>,
      <<"#", "#", " ", "*", "a", "*">>,
      <<" ", "-", " ", "*", "*", "a", "*", "*">>,
      <<"2", ".", " ", "[", "a", "]", "(", "u", ")">>,
      <<BQ, BQ, BQ>>,
      <<BQ, BQ, BQ, " ", "x">>,
      <<"*", "*", "a", "*", "*">> }

\* Paragraph lines with bold, italic and link spans.
InlinePool ==
    { <<"*", "*", "*", "w", "o", "w", "*", "*", "*">>,
      <<"*", "*", "a", "*", "*">>,
      <<"_", "_", "a", "_", "_">>,
      <<"*", "a", "*">>,
      <<"_", "a", "_">>,
      <<"[", "g", "o", "]", "(", "h", "t", "t", "p", ":", "/", "/", "x", ")">>,
      <<"a", " ", "[", "g", "o", "]", "(", "u", ")", " ", "b">>,
      <<"[", "[", "g", "o", "]", "(", "u", ")">>,
      <<"[", "a", "]", "(", "[", "b", "]", "(", "c", ")">>,
      <<"[", "a", "]", "(", "b", ")", " ", "[", "c", "]", "(", "d", ")">>,
      <<"*", "*", "a", "*", "*", " ", "*", "b", "*", " ", "[", "c", "]", "(", "d", ")">>,
      <<"*", "*", "a", "*", "*", " ", "_", "_", "b", "_", "_">>,
      <<"*", "a", "*", " ", "_", "b", "_">>,
      <<"*", "*", "*", "*">>,
      <<"[", "]", "(", "u", ")">>,
      <<"[", "a", "]", "(", ")">>,
      <<"*", "*", "a", "*">>,
      <<"*", "a", "*", "*", "b", "*">>,
      <<"a", "*", "b", "*", "c">>,
      <<"_", "_", "a", "*", "*">>,
      <<"*", "*", "[", "a", "]", "(", "u", ")", "*", "*">>,
      <<"*", "a", CR, "*">>,
      <<"[", "a", "]", "b", "]", "(", "u", ")">> }

\* Documents of the specification's examples and of the patterns' edges.
SpecialDocs ==
    { <<<<"#", " ", "T", "i", "t", "l", "e">>, <<>>>>,
      <<<<"#", " ", "a", CR>>>>,
      <<<<"#", " ", " ">>>>,
      <<<<"1", ".", " ", "a">>, <<"2", ".", " ", "b">>, <<"3", ".", " ", "c">>>>,
      <<<<BQ, BQ, BQ, "c", "+">>, <<"a">>, <<BQ, BQ, BQ>>>>,
      <<<<"9", ".", " ", "a">>, <<"9", ".", " ", "b">>, <<"1", ".", " ", "c">>>>,
      <<<<"\t", "-", " ", "a">>>>,
      <<<<"#", "#", "#", "#", "#", "#", "#", " ", "a">>>>,
      <<<<"1", "0", ".", " ", "a">>>>,
      <<<<BQ, BQ, BQ, "j", "s">>, <<"#", " ", "a">>, <<>>, <<BQ, BQ, BQ>>, <<"a">>>>,
      <<<<"a">>, <<" ", BQ, BQ, BQ, "j", "s", " ">>, <<"-", " ", "a">>, <<>>, <<"*", "a", "*">>>> }

\* The sequences of length 1..n over set.
SeqsUpTo(set, n) == UNION {[1..k -> set] : k \in 1..n}

BlockDocs(n) == SeqsUpTo(BlockPool, n)

Docs ==
    BlockDocs(MaxLines)
        \cup {<<l>> : l \in InlinePool}
        \cup {d \o <<l>> : d \in BlockDocs(MaxPrefix), l \in InlinePool}
        \cup {<<l>> : l \in SeqsUpTo(Alphabet, MaxLen)}
        \cup SpecialDocs

(***************************************************************************)
(* convertMarkdownToRequests                                               *)
(***************************************************************************)
\* req.body and res where no request is handled.
NoBody == [type |-> "undefined"]

NoResponse == 0

InitLines ==
    /\ converter = "lines"
    /\ lines \in Docs
    /\ elements = <<>>
    /\ listOrder = "undefined"
    /\ i = 0
    /\ index = 1
    /\ requests = <<>>
    /\ emittedAt = <<>>
    /\ thrown = {}
    /\ consumed = <<>>
    /\ req = NoBody
    /\ res = NoResponse
    /\ calls = <<>>
    /\ pc = "loop"

\* lines[i], the for-loop's current line.
Line == lines[i + 1]

InLoop == converter = "lines" /\ pc = "loop" /\ i < Len(lines)

IsBlank(line) == Trim(line) = <<>>

IsCodeStart(line) ==
    StartsWithFence(Trim(line)) /\ CodeStartMatch(Trim(line))

\* requests.push(...) of the current iteration, with the history of where.
Push(rs, kind) ==
    /\ requests' = requests \o rs
    /\ emittedAt' = emittedAt \o
            [k \in 1..Len(rs) |-> [line |-> i, cursor |-> index, kind |-> kind]]

\* The loop reads line n as kind as.
Read(n, as) == [line |-> n, as |-> as]

Consume(reads) == consumed' = consumed \o reads

BlankRequests(at) == <<InsertText(<<NL>>, at)>>

BlankAdvance == 1

\* if (line.trim() === '') { push; index += 1; continue }
BlankLine ==
    /\ InLoop
    /\ IsBlank(Line)
    /\ Push(BlankRequests(index), "blank")
    /\ index' = index + BlankAdvance
    /\ i' = i + 1
    /\ Consume(<<Read(i, "blank")>>)
    /\ UNCHANGED <<http, thrown, converter, lines, elements, listOrder, pc>>

HeadingRangeEnd(at, text) == at + Len(text)

HeadingRequests(m, at) ==
    <<InsertText(m.text \o <<NL>>, at),
      UpdateParagraphStyle([namedStyleType |-> HeadingStyleName(m.level)],
                           at, HeadingRangeEnd(at, m.text), "namedStyleType")>>

\* A heading advance that forgets the newline.
HeadingAdvanceWithoutNewline(text) == Len(text)

HeadingAdvance(text) == Len(text) + 1

\* if (headingMatch) { push, push; index += text.length + 1; continue }
Heading ==
    /\ InLoop
    /\ ~IsBlank(Line)
    /\ HeadingMatch(Line).matched
    /\ LET m == HeadingMatch(Line)
       IN  /\ Push(HeadingRequests(m, index), "heading")
           /\ index' = index + HeadingAdvance(m.text)
    /\ i' = i + 1
    /\ Consume(<<Read(i, "heading")>>)
    /\ UNCHANGED <<http, thrown, converter, lines, elements, listOrder, pc>>

\* The requests of a list item: the text, the bullets, and the indentation
\* when the item is indented.
ListRequests(m, at, preset) ==
    <<InsertText(m.text \o <<NL>>, at),
      CreateParagraphBullets(at, at + Len(m.text), preset)>>
    \o (IF m.indent > 0
        THEN <<UpdateParagraphStyle(Indentation(m.indent), at, at + Len(m.text),
                                    "indentStart,indentFirstLine")>>
        ELSE <<>>)

BulletedListRequests(m, at) == ListRequests(m, at, "BULLET_DISC_CIRCLE_SQUARE")

NumberedListRequests(m, at) == ListRequests(m, at, "NUMBERED_DECIMAL_NESTED")

\* A list item advance that forgets the newline.
ListAdvanceWithoutNewline(text) == Len(text)

ListAdvance(text) == Len(text) + 1

\* if (bulletedListMatch) { ...; index += text.length + 1; continue }
BulletedList ==
    /\ InLoop
    /\ ~IsBlank(Line)
    /\ ~HeadingMatch(Line).matched
    /\ BulletedListMatch(Line).matched
    /\ LET m == BulletedListMatch(Line)
       IN  /\ Push(BulletedListRequests(m, index), "bulleted")
           /\ index' = index + ListAdvance(m.text)
    /\ i' = i + 1
    /\ Consume(<<Read(i, "bulleted")>>)
    /\ UNCHANGED <<http, thrown, converter, lines, elements, listOrder, pc>>

\* if (numberedListMatch) { ...; index += text.length + 1; continue }
NumberedList ==
    /\ InLoop
    /\ ~IsBlank(Line)
    /\ ~HeadingMatch(Line).matched
    /\ ~BulletedListMatch(Line).matched
    /\ NumberedListMatch(Line).matched
    /\ LET m == NumberedListMatch(Line)
       IN  /\ Push(NumberedListRequests(m, index), "numbered")
           /\ index' = index + ListAdvance(m.text)
    /\ i' = i + 1
    /\ Consume(<<Read(i, "numbered")>>)
    /\ UNCHANGED <<http, thrown, converter, lines, elements, listOrder, pc>>

RECURSIVE CodeEnd(_, _)
\* The while loop that looks for the end of the code block: the value of j
\* (0-based) when it stops.
CodeEnd(ls, j) ==
    IF j < Len(ls) /\ ~StartsWithFence(Trim(ls[j + 1]))
    THEN CodeEnd(ls, j + 1)
    ELSE j

RECURSIVE CodeContentJoined(_, _, _)
\* A code content that joins the lines with newlines and ends without one.
CodeContentJoined(ls, j, stop) ==
    IF j < stop
    THEN ls[j + 1] \o (IF j + 1 < stop THEN <<NL>> ELSE <<>>)
             \o CodeContentJoined(ls, j + 1, stop)
    ELSE <<>>

RECURSIVE CodeContent(_, _, _)
\* codeContent as the same loop builds it, from line j up to line stop - 1.
CodeContent(ls, j, stop) ==
    IF j < stop
    THEN ls[j + 1] \o <<NL>> \o CodeContent(ls, j + 1, stop)
    ELSE <<>>

CodeRequests(codeContent, at) ==
    <<InsertText(codeContent, at),
      UpdateTextStyle(CodeStyle, at, at + Len(codeContent),
                      "fontFamily,backgroundColor")>>

\* A code block that forgets to advance the cursor.
CodeAdvanceForgotten(codeContent) == 0

CodeAdvance(codeContent) == Len(codeContent)

\* The lines a code block reads: line i as its opening fence, the lines
\* the while loop appends to codeContent, and line j, on which the loop
\* stops, as the closing fence when there is such a line.
CodeReads(ls, from, j) ==
    <<Read(from, "open")>>
        \o [k \in 1..(j - from - 1) |-> Read(from + k, "content")]
        \o (IF j < Len(ls) THEN <<Read(j, "close")>> ELSE <<>>)

\* A code block after which the loop goes on at the line the while loop
\* stopped on.
CodeResumeAtClosingFence(j) == j

\* i = j, and the for-loop's i++: the loop goes on after line j.
CodeResume(j) == j + 1

\* if (line.trim().startsWith(fence)) { if (codeStartMatch) { ...;
\* index += codeContent.length; i = j; continue } }
CodeBlock ==
    /\ InLoop
    /\ ~IsBlank(Line)
    /\ ~HeadingMatch(Line).matched
    /\ ~BulletedListMatch(Line).matched
    /\ ~NumberedListMatch(Line).matched
    /\ IsCodeStart(Line)
    /\ LET j == CodeEnd(lines, i + 1)
           codeContent == CodeContent(lines, i + 1, j)
       IN  /\ Push(CodeRequests(codeContent, index), "code")
           /\ index' = index + CodeAdvance(codeContent)
           /\ i' = CodeResume(j)
           /\ Consume(CodeReads(lines, i, j))
    /\ UNCHANGED <<http, thrown, converter, lines, elements, listOrder, pc>>

\* A paragraph whose inline styles are pushed before its text.
ParagraphRequestsStylesFirst(line, at, throwAt) ==
    ProcessInlineFormatting(line, at, throwAt) \o <<InsertText(line \o <<NL>>, at)>>

ParagraphRequests(line, at, throwAt) ==
    <<InsertText(line \o <<NL>>, at)>> \o ProcessInlineFormatting(line, at, throwAt)

ParagraphAdvance(line) == Len(line) + 1

\* The fall-through: push the line, processInlineFormatting, index += ...
Paragraph ==
    /\ InLoop
    /\ ~IsBlank(Line)
    /\ ~HeadingMatch(Line).matched
    /\ ~BulletedListMatch(Line).matched
    /\ ~NumberedListMatch(Line).matched
    /\ ~IsCodeStart(Line)
    /\ \E throwAt \in Throws(Line) :
          /\ Push(ParagraphRequests(Line, index, throwAt), "paragraph")
          /\ thrown' = IF throwAt = 0 THEN thrown ELSE thrown \cup {i}
    /\ index' = index + ParagraphAdvance(Line)
    /\ i' = i + 1
    /\ Consume(<<Read(i, "paragraph")>>)
    /\ UNCHANGED <<http, converter, lines, elements, listOrder, pc>>

\* The loop condition fails: return requests.
Return ==
    /\ converter = "lines"
    /\ pc = "loop"
    /\ i >= Len(lines)
    /\ pc' = "done"
    /\ UNCHANGED <<http, history, converter, lines, elements, listOrder, i, index, requests, emittedAt>>

(***************************************************************************)
(* processMarkdown with the marked library (src/utils/markdownProcessor.js)*)
(*                                                                         *)
(* marked.parse calls walkTokens and the renderer's callbacks; which, how  *)
(* often and in which order is the library's business, so the parse phase  *)
(* allows any sequence of up to MaxElements collecting callbacks, with     *)
(* arguments from the pools below.  strong, em, list and the two hooks     *)
(* return their argument or the empty string and change nothing.           *)
(***************************************************************************)
MaxElements == 3

\* The bullet character U+2022, as one symbol.
BULLET == "BULLET"

\* The arguments the callbacks are called with.
HeadingTexts == {<<"a">>}

HeadingLevels == {1, 2}

ParagraphTexts == {<<"b", "c">>}

ItemTexts == {<<"a">>, <<"b", "c">>}

CodeTexts == {<<"a", NL, "b">>}

\* An image's alt text may be empty.
AltPool == {<<>>, <<"a">>}

HrefPool == {<<"u">>}

\* A JavaScript value that is true, false or undefined.
Tristate == {"true", "false", "undefined"}

InitMarked ==
    /\ converter = "marked"
    /\ lines = <<>>
    /\ elements = <<>>
    /\ listOrder = "undefined"
    /\ i = 0
    /\ index = 1
    /\ requests = <<>>
    /\ emittedAt = <<>>
    /\ thrown = {}
    /\ consumed = <<>>
    /\ req = NoBody
    /\ res = NoResponse
    /\ calls = <<>>
    /\ pc = "parse"

\* new GoogleDocsRenderer(): elements = [], orderedList = false.
InitClass ==
    /\ converter = "class"
    /\ lines = <<>>
    /\ elements = <<>>
    /\ listOrder = "false"
    /\ i = 0
    /\ index = 1
    /\ requests = <<>>
    /\ emittedAt = <<>>
    /\ thrown = {}
    /\ consumed = <<>>
    /\ req = NoBody
    /\ res = NoResponse
    /\ calls = <<>>
    /\ pc = "parse"

Parsing == converter \in {"marked", "class"} /\ pc = "parse"

Collecting == Parsing /\ Len(elements) < MaxElements

\* elements.push(element) in a callback.
Collect(element) ==
    /\ elements' = Append(elements, element)
    /\ UNCHANGED <<http, history, converter, lines, listOrder, i, index, requests, emittedAt, pc>>

\* renderer.heading(text, level)
RendererHeading ==
    /\ Collecting
    /\ \E text \in HeadingTexts, level \in HeadingLevels :
          Collect([type |-> "heading", level |-> level, text |-> text,
                   style |-> [namedStyleType |-> HeadingStyleName(level)]])

\* renderer.paragraph(text)
RendererParagraph ==
    /\ Collecting
    /\ \E text \in ParagraphTexts :
          Collect([type |-> "paragraph", text |-> text,
                   style |-> [namedStyleType |-> "NORMAL_TEXT"]])

\* The index of a new list item: the list items collected so far whose
\* ordered is (===) the new one's, plus one.
ListItemIndex(els, ordered) ==
    Cardinality({k \in 1..Len(els) :
                    els[k].type = "listItem" /\ els[k].ordered = ordered}) + 1

ListItemStyle ==
    [indentStart |-> [magnitude |-> 36, unit |-> "PT"],
     indentFirstLine |-> [magnitude |-> -18, unit |-> "PT"]]

\* The class's style of a list item: 36 * this.listNesting, which stays 0.
ClassListItemStyle ==
    [indentStart |-> [magnitude |-> 36 * 0, unit |-> "PT"],
     indentFirstLine |-> [magnitude |-> -18, unit |-> "PT"]]

\* The objects a callback may be called on: the renderer object itself
\* or, for the object literal given to marked, an object of the library's.
\* The class's callbacks push to this.elements, which only the instance has.
Selves == IF converter = "class" THEN {"renderer"} ELSE {"renderer", "other"}

\* renderer.listitem(text, task, checked).  this.listOrder is the property
\* walkTokens set when the library calls the callback on the renderer object
\* itself, and undefined when it calls it on an object of its own.  In the
\* class it is this.orderedList, which list() set.
RendererListitem ==
    /\ Collecting
    /\ \E text \in ItemTexts, self \in Selves :
          LET ordered == IF self = "renderer" THEN listOrder ELSE "undefined"
          IN  Collect([type |-> "listItem", text |-> text, ordered |-> ordered,
                       index |-> ListItemIndex(elements, ordered), level |-> 0,
                       style |-> IF converter = "class" THEN ClassListItemStyle
                                 ELSE ListItemStyle])

\* renderer.code(code, language)
RendererCode ==
    /\ Collecting
    /\ \E code \in CodeTexts :
          Collect([type |-> "codeBlock", text |-> code, language |-> <<"j", "s">>,
                   style |-> CodeStyle])

\* renderer.image(href, title, text)
RendererImage ==
    /\ Collecting
    /\ \E href \in HrefPool, text \in AltPool :
          Collect([type |-> "image", href |-> href, title |-> "null",
                   text |-> text, style |-> <<>>])

\* walkTokens(token), for a token of type list: renderer.listOrder = token.ordered
WalkTokens ==
    /\ Parsing /\ converter = "marked"
    /\ \E ordered \in {"true", "false"} : listOrder' = ordered
    /\ UNCHANGED <<http, history, converter, lines, elements, i, index, requests, emittedAt, pc>>

\* The class's list(body, ordered): this.orderedList = ordered
RendererList ==
    /\ Parsing /\ converter = "class"
    /\ \E ordered \in {"true", "false"} : listOrder' = ordered
    /\ UNCHANGED <<http, history, converter, lines, elements, i, index, requests, emittedAt, pc>>

\* markedInstance.parse(markdown) returns.
ParseReturns ==
    /\ Parsing
    /\ pc' = "emit"
    /\ UNCHANGED <<http, history, converter, lines, elements, listOrder, i, index, requests, emittedAt>>

DigitChar(d) ==
    CASE d = 0 -> "0" [] d = 1 -> "1" [] d = 2 -> "2" [] d = 3 -> "3"
      [] d = 4 -> "4" [] d = 5 -> "5" [] d = 6 -> "6" [] d = 7 -> "7"
      [] d = 8 -> "8" [] d = 9 -> "9"

RECURSIVE Decimal(_)
\* A natural number in a template string: its decimal digits.
Decimal(n) ==
    IF n < 10 THEN <<DigitChar(n)>>
    ELSE Decimal(n \div 10) \o <<DigitChar(n % 10)>>

\* The for-of's current element.
Element == elements[i + 1]

Emitting(type) ==
    /\ converter = "marked" /\ pc = "emit"
    /\ i < Len(elements)
    /\ Element.type = type

\* One iteration of the loop over the elements: the pushes, the advance.
Emit(rs, advance) ==
    /\ Push(rs, Element.type)
    /\ index' = index + advance
    /\ i' = i + 1
    /\ UNCHANGED <<http, history, converter, lines, elements, listOrder, pc>>

ElementHeadingRequests(el, at) ==
    <<InsertText(el.text \o <<NL>>, at),
      UpdateParagraphStyle(el.style, at, at + Len(el.text), "namedStyleType")>>

\* case 'heading'
EmitHeading ==
    /\ Emitting("heading")
    /\ Emit(ElementHeadingRequests(Element, index), Len(Element.text) + 1)

\* case 'paragraph'
EmitParagraph ==
    /\ Emitting("paragraph")
    /\ Emit(<<InsertText(Element.text \o <<NL>>, index)>>, Len(Element.text) + 1)

\* prefix: the item's index and a dot when element.ordered is truthy, the
\* bullet otherwise; a space in both.
ListItemPrefix(el) ==
    IF el.ordered = "true" THEN Decimal(el.index) \o <<".", " ">>
    ELSE <<BULLET, " ">>

ElementListItemRequests(el, at) ==
    <<InsertText(ListItemPrefix(el) \o el.text \o <<NL>>, at),
      UpdateParagraphStyle(el.style, at,
                           at + Len(ListItemPrefix(el)) + Len(el.text),
                           "indentStart,indentFirstLine")>>

ElementListItemAdvance(el) == Len(ListItemPrefix(el)) + Len(el.text) + 1

\* case 'listItem'
EmitListItem ==
    /\ Emitting("listItem")
    /\ Emit(ElementListItemRequests(Element, index), ElementListItemAdvance(Element))

ElementCodeBlockRequests(el, at) ==
    <<InsertText(el.text \o <<NL>>, at),
      UpdateTextStyle(el.style, at, at + Len(el.text), "fontFamily,backgroundColor")>>

\* case 'codeBlock'
EmitCodeBlock ==
    /\ Emitting("codeBlock")
    /\ Emit(ElementCodeBlockRequests(Element, index), Len(Element.text) + 1)

\* An image placeholder that never falls back to the URL.
ImagePlaceholderAltOnly(el) ==
    <<"[", "I", "m", "a", "g", "e", ":", " ">> \o el.text \o <<"]", NL>>

\* The placeholder of an image: its alt text, or its href when that is empty.
ImagePlaceholder(el) ==
    <<"[", "I", "m", "a", "g", "e", ":", " ">>
        \o (IF el.text # <<>> THEN el.text ELSE el.href)
        \o <<"]", NL>>

\* case 'image'
EmitImage ==
    /\ Emitting("image")
    /\ Emit(<<InsertText(ImagePlaceholder(Element), index)>>,
            Len(ImagePlaceholder(Element)))

\* The loop over the elements ends: return { requests }.
ProcessMarkdownReturns ==
    /\ converter = "marked" /\ pc = "emit"
    /\ i >= Len(elements)
    /\ pc' = "done"
    /\ UNCHANGED <<http, history, converter, lines, elements, listOrder, i, index, requests, emittedAt>>

(***************************************************************************)
(* processMarkdown with the class GoogleDocsRenderer                       *)
(*                                                                         *)
(* The callbacks collect the same elements; generateGoogleDocsRequests     *)
(* turns each into a request or an array of requests and advances the      *)
(* cursor from the last request of what elementToRequest returned.  The    *)
(* class is modelled as its methods are written; its constructor's super() *)
(* call, in a class that extends nothing, is left aside.                   *)
(***************************************************************************)
\* elementToRequest(element, index): an array of requests, or one request
\* (here an array marked as not being one).
ElementToRequest(el, at) ==
    CASE el.type = "heading" ->
            [isArray |-> TRUE,
             request |-> <<InsertText(el.text \o <<NL>>, at),
                           UpdateParagraphStyle(el.style, at, at + Len(el.text),
                                                "namedStyleType")>>]
      [] el.type = "paragraph" ->
            [isArray |-> FALSE,
             request |-> <<InsertText(el.text \o <<NL>>, at)>>]
      [] el.type = "listItem" ->
            LET prefix == ListItemPrefix(el)
            IN  [isArray |-> TRUE,
                 request |-> <<InsertText(prefix \o el.text \o <<NL>>, at),
                               UpdateParagraphStyle(el.style, at,
                                   at + Len(prefix) + Len(el.text),
                                   "indentStart,indentFirstLine")>>]
      [] el.type = "codeBlock" ->
            [isArray |-> TRUE,
             request |-> <<InsertText(el.text \o <<NL>>, at),
                           UpdateTextStyle(el.style, at, at + Len(el.text),
                                           "fontFamily,backgroundColor")>>]
      [] el.type = "image" ->
            [isArray |-> FALSE,
             request |-> <<InsertText(ImagePlaceholder(el), at)>>]

\* if (r.insertText) index += r.insertText.text.length
InsertedBy(r) == IF r.op = "insertText" THEN Len(r.text) ELSE 0

\* The advance of the cursor after an element: by the last request of the
\* array, or by the one request.
GenerateAdvance(result) ==
    IF result.isArray
    THEN InsertedBy(result.request[Len(result.request)])
    ELSE InsertedBy(result.request[1])

\* One iteration of for (const element of this.elements).
GenerateGoogleDocsRequests ==
    /\ converter = "class" /\ pc = "emit"
    /\ i < Len(elements)
    /\ LET result == ElementToRequest(Element, index)
       IN  /\ Push(result.request, Element.type)
           /\ index' = index + GenerateAdvance(result)
    /\ i' = i + 1
    /\ UNCHANGED <<http, history, converter, lines, elements, listOrder, pc>>

\* The loop over the elements ends: return requests.
GenerateReturns ==
    /\ converter = "class" /\ pc = "emit"
    /\ i >= Len(elements)
    /\ pc' = "done"
    /\ UNCHANGED <<http, history, converter, lines, elements, listOrder, i, index, requests, emittedAt>>

(***************************************************************************)
(* The HTTP handler convertMarkdownToGoogleDoc, behind the validators of   *)
(* validateMarkdownPayload when the route mounts them.  processMarkdown    *)
(* and createGoogleDoc are its collaborators: each returns or throws.      *)
(***************************************************************************)
\* The JavaScript values of a JSON body's fields.
Undefined == [type |-> "undefined"]

Null == [type |-> "null"]

Str(s) == [type |-> "string", value |-> s]

Obj(token) == [type |-> "object", access_token |-> token]

\* ToBoolean(v)
Truthy(v) ==
    CASE v.type = "undefined" -> FALSE
      [] v.type = "null" -> FALSE
      [] v.type = "string" -> v.value # <<>>
      [] v.type = "object" -> TRUE

\* credentials.access_token: the property of an object, undefined on a string
AccessToken(credentials) ==
    IF credentials.type = "object" THEN credentials.access_token ELSE Undefined

\* The request bodies: express.json() leaves an object in req.body.
DocNames == {Undefined, Str(<<>>), Str(<<" ">>), Str(<<"D">>)}

Markdowns == {Undefined, Str(<<>>), Str(<<"#", " ", "a">>)}

Tokens == {Undefined, Str(<<>>), Str(<<"t">>)}

CredentialsPool == {Undefined, Null, Str(<<"c">>)} \cup {Obj(t) : t \in Tokens}

Bodies ==
    [type : {"object"}, docName : DocNames, markdown : Markdowns,
     credentials : CredentialsPool]

\* A request arrives at the route, which runs the validators first or the
\* handler at once.
InitHttp ==
    /\ converter = "http"
    /\ lines = <<>>
    /\ elements = <<>>
    /\ listOrder = "undefined"
    /\ i = 0
    /\ index = 1
    /\ requests = <<>>
    /\ emittedAt = <<>>
    /\ thrown = {}
    /\ consumed = <<>>
    /\ req \in Bodies
    /\ res = NoResponse
    /\ calls = <<>>
    /\ pc \in {"validators", "handler"}

Init == InitLines \/ InitMarked \/ InitClass \/ InitHttp

\* res.status(code).json(...): the handler is done.
Respond(code) ==
    /\ res' = code
    /\ pc' = "responded"

NotHttp == <<lines, elements, listOrder, i, index, requests, emittedAt, history>>

\* notEmpty().isString() on a field: a string that is not empty.
NotEmptyString(v) == v.type = "string" /\ v.value # <<>>

\* body('docName').trim(): the field becomes its string, trimmed; the string
\* of a missing field is the empty one.
TrimSanitizer(v) == IF v.type = "string" THEN Str(Trim(v.value)) ELSE Str(<<>>)

\* validationResult(req).isEmpty(), on the sanitized body
ValidationPasses(body) ==
    /\ NotEmptyString(body.docName)
    /\ Len(body.docName.value) <= 255
    /\ NotEmptyString(body.markdown)
    /\ body.credentials.type = "object"
    /\ NotEmptyString(AccessToken(body.credentials))

\* The chain of validateMarkdownPayload and its last middleware: 400, or
\* next().
ValidateMarkdownPayload ==
    /\ converter = "http" /\ pc = "validators"
    /\ LET body == [req EXCEPT !.docName = TrimSanitizer(@)]
       IN  /\ req' = body
           /\ IF ValidationPasses(body)
              THEN pc' = "handler" /\ res' = res
              ELSE Respond(400)
    /\ UNCHANGED <<calls, converter, NotHttp>>

\* if (!docName || !markdown)
FieldsMissing(body) == ~Truthy(body.docName) \/ ~Truthy(body.markdown)

\* A check of the credentials that does not look for the access_token.
CredentialsMissingOnly(credentials) == ~Truthy(credentials)

\* if (!credentials || !credentials.access_token)
CredentialsMissing(credentials) ==
    ~Truthy(credentials) \/ ~Truthy(AccessToken(credentials))

\* The handler up to the call of processMarkdown(markdown): 400 for a body
\* that fails one of its two checks.
ConvertMarkdownToGoogleDoc ==
    /\ converter = "http" /\ pc = "handler"
    /\ IF FieldsMissing(req) \/ CredentialsMissing(req.credentials)
       THEN Respond(400) /\ calls' = calls
       ELSE /\ calls' = Append(calls, "processMarkdown")
            /\ pc' = "processing"
            /\ res' = res
    /\ UNCHANGED <<req, converter, NotHttp>>

\* processMarkdown throws: the catch block responds 500.
ProcessMarkdownThrows ==
    /\ converter = "http" /\ pc = "processing"
    /\ calls' = Append(calls, "processMarkdown threw")
    /\ Respond(500)
    /\ UNCHANGED <<req, converter, NotHttp>>

\* processMarkdown returns { requests }: createGoogleDoc is called.
CreateGoogleDoc ==
    /\ converter = "http" /\ pc = "processing"
    /\ calls' = calls \o <<"processMarkdown returned", "createGoogleDoc">>
    /\ pc' = "creating"
    /\ UNCHANGED <<req, res, converter, NotHttp>>

\* await createGoogleDoc(...) resolves: 201.
CreateGoogleDocResolves ==
    /\ converter = "http" /\ pc = "creating"
    /\ Respond(201)
    /\ UNCHANGED <<req, calls, converter, NotHttp>>

\* await createGoogleDoc(...) rejects: the catch block responds 500.
CreateGoogleDocRejects ==
    /\ converter = "http" /\ pc = "creating"
    /\ Respond(500)
    /\ UNCHANGED <<req, calls, converter, NotHttp>>

Next ==
    \/ BlankLine
    \/ Heading
    \/ BulletedList
    \/ NumberedList
    \/ CodeBlock
    \/ Paragraph
    \/ Return
    \/ RendererHeading
    \/ RendererParagraph
    \/ RendererListitem
    \/ RendererCode
    \/ RendererImage
    \/ WalkTokens
    \/ ParseReturns
    \/ EmitHeading
    \/ EmitParagraph
    \/ EmitListItem
    \/ EmitCodeBlock
    \/ EmitImage
    \/ ProcessMarkdownReturns
    \/ RendererList
    \/ GenerateGoogleDocsRequests
    \/ GenerateReturns
    \/ ValidateMarkdownPayload
    \/ ConvertMarkdownToGoogleDoc
    \/ ProcessMarkdownThrows
    \/ CreateGoogleDoc
    \/ CreateGoogleDocResolves
    \/ CreateGoogleDocRejects

Spec == Init /\ [][Next]_vars

TypeOK ==
    /\ converter \in {"lines", "marked", "class", "http"}
    /\ listOrder \in Tristate
    /\ i \in 0..(Len(lines) + Len(elements) + 1)
    /\ index \in Nat
    /\ Len(emittedAt) = Len(requests)
    /\ pc \in {"loop", "parse", "emit", "done",
              "validators", "handler", "processing", "creating", "responded"}
    /\ res \in {NoResponse, 201, 400, 500}
    /\ thrown \subseteq 0..Len(lines)

(***************************************************************************)
(* Properties                                                              *)
(***************************************************************************)
RECURSIVE InsertedLen(_)
\* The total length of the text of the insertText requests of rs.
InsertedLen(rs) ==
    IF rs = <<>> THEN 0
    ELSE (IF Head(rs).op = "insertText" THEN Len(Head(rs).text) ELSE 0)
         + InsertedLen(Tail(rs))

Lines == converter = "lines"

\* The requests pushed before the k-th.
Before(k) == SubSeq(requests, 1, k - 1)

Ranged == {k \in 1..Len(requests) : HasRange(requests[k])}

Inserts == {k \in 1..Len(requests) : requests[k].op = "insertText"}

\* C1: the cursor is 1 plus the length of all text inserted so far (so it is
\* 1 at the start, style-only requests leave it alone, and its final value
\* minus 1 is the total inserted length), and every insertText is located at
\* 1 plus the length of the text the insertText requests before it inserted.
C1_CursorIsInsertedLength ==
    Lines =>
    /\ index = 1 + InsertedLen(requests)
    /\ \A k \in Inserts : requests[k].index = 1 + InsertedLen(Before(k))
    /\ \A k \in 1..Len(requests) :
          emittedAt[k].cursor =
              1 + InsertedLen(SubSeq(requests, 1,
                      Min({m \in 1..k : emittedAt[m].line = emittedAt[k].line}) - 1))

\* C1 witness: a finished conversion of several blocks, with style-only
\* requests between the inserts.
C1_Witness ==
    /\ Lines /\ pc = "done"
    /\ Cardinality(Inserts) >= 3
    /\ Cardinality(Ranged) >= 2
    /\ index > 4

\* C2 as claimed: every range ends at or before the cursor at the moment its
\* request is pushed, and the cursor never decreases along the requests.
C2_RangeEndWithinCursorAtEmission ==
    Lines =>
    /\ \A k \in Ranged : requests[k].endIndex <= emittedAt[k].cursor
    /\ \A k, m \in 1..Len(requests) :
          k <= m => emittedAt[k].cursor <= emittedAt[m].cursor

\* C2 amended: every range ends at or before the cursor as advanced by the
\* iteration that pushed the request (this holds in the state right after
\* that iteration and in every later one), and the cursor never decreases
\* along the requests.
C2_RangeEndWithinAdvancedCursor ==
    Lines =>
    /\ \A k \in Ranged : requests[k].endIndex <= index
    /\ \A k, m \in 1..Len(requests) :
          k <= m => emittedAt[k].cursor <= emittedAt[m].cursor
    /\ \A k \in 1..Len(requests) : emittedAt[k].cursor <= index

\* C2 witness: a range that ends beyond the cursor at which it was pushed, in
\* a conversion that went on to push more.
C2_Witness ==
    \E k \in Ranged :
        /\ Lines
        /\ requests[k].endIndex > emittedAt[k].cursor
        /\ requests[k].endIndex < index
        /\ emittedAt[Len(requests)].cursor > emittedAt[k].cursor

\* C3: applied in array order, every range lies inside the text inserted by
\* the insertText requests that precede it.
C3_RangesWithinInsertedText ==
    Lines =>
    \A k \in Ranged :
        /\ 1 <= requests[k].startIndex
        /\ requests[k].startIndex <= requests[k].endIndex
        /\ requests[k].endIndex <= 1 + InsertedLen(Before(k))

\* C3 witness: an inline style of a paragraph that is not the first block,
\* ending exactly at the end of the text inserted so far less its newline.
C3_Witness ==
    \E k \in Ranged :
        /\ Lines
        /\ emittedAt[k].kind = "paragraph"
        /\ emittedAt[k].cursor > 1
        /\ requests[k].endIndex = InsertedLen(Before(k)) - 1


\* The requests pushed by the iteration that handled line a (0-based).
PushedAt(a) == {k \in 1..Len(requests) : emittedAt[k].line = a}

\* The line (1-based position in lines) whose iteration pushed request k.
LineOf(k) == lines[emittedAt[k].line + 1]

\* C4 as claimed: a document of one heading line and a trailing newline
\* yields the heading's insertText at 1 and its updateParagraphStyle over the
\* heading text, and nothing else.
C4_HeadingAndNewlineYieldTwoRequests ==
    (/\ Lines /\ pc = "done"
     /\ Len(lines) = 2 /\ lines[2] = <<>>
     /\ HeadingMatch(lines[1]).matched)
    => LET m == HeadingMatch(lines[1])
       IN  /\ Len(requests) = 2
           /\ requests[1].op = "insertText"
           /\ requests[1].text = m.text \o <<NL>>
           /\ requests[1].index = 1
           /\ requests[2].op = "updateParagraphStyle"
           /\ requests[2].paragraphStyle =
                  [namedStyleType |-> HeadingStyleName(m.level)]
           /\ requests[2].startIndex = 1
           /\ requests[2].endIndex = 1 + Len(m.text)

TripleWow == <<"*", "*", "*", "w", "o", "w", "*", "*", "*">>

\* C5 as claimed: a paragraph line ***wow*** gets a bold and an italic
\* updateTextStyle, two requests, both over exactly the inner text wow.
C5_TripleEmphasisIsBoldAndItalic ==
    Lines =>
    \A k \in Inserts :
        (emittedAt[k].kind = "paragraph" /\ LineOf(k) = TripleWow)
        => \E b, t \in PushedAt(emittedAt[k].line) :
              /\ requests[b].op = "updateTextStyle"
              /\ requests[b].fields = "bold"
              /\ requests[t].op = "updateTextStyle"
              /\ requests[t].fields = "italic"
              /\ requests[b].startIndex = emittedAt[k].cursor + 3
              /\ requests[b].endIndex = emittedAt[k].cursor + 6
              /\ requests[t].startIndex = requests[b].startIndex
              /\ requests[t].endIndex = requests[b].endIndex

\* line holds, from offset p (0-based) on, a link whose display text has tl
\* characters, none a bracket, and whose url has ul characters, none a
\* parenthesis.
LinkIn(line, p, tl, ul) ==
    /\ p + tl + ul + 4 <= Len(line)
    /\ line[p + 1] = "["
    /\ \A k \in (p + 2)..(p + 1 + tl) : line[k] \notin {"[", "]", CR}
    /\ line[p + 2 + tl] = "]"
    /\ line[p + 3 + tl] = "("
    /\ \A k \in (p + 4 + tl)..(p + 3 + tl + ul) : line[k] \notin {"(", ")", CR}
    /\ line[p + 4 + tl + ul] = ")"

\* C6 as claimed: every link of a paragraph line gets an updateTextStyle with
\* its url, over exactly its display text.
C6_EveryLinkGetsItsRange ==
    Lines =>
    \A k \in Inserts :
        emittedAt[k].kind = "paragraph"
        => \A p, tl, ul \in 0..Len(LineOf(k)) :
              LinkIn(LineOf(k), p, tl, ul)
              => \E m \in PushedAt(emittedAt[k].line) :
                    /\ requests[m].op = "updateTextStyle"
                    /\ requests[m].fields = "link"
                    /\ requests[m].textStyle.link.url =
                           SubSeq(LineOf(k), p + 4 + tl, p + 3 + tl + ul)
                    /\ requests[m].startIndex = emittedAt[k].cursor + p + 1
                    /\ requests[m].endIndex = emittedAt[k].cursor + p + 1 + tl

\* Whether line a (0-based) is a fence line: trimmed, it starts with the fence.
IsFenceLine(a) == StartsWithFence(Trim(lines[a + 1]))

\* The first fence line after line a, Len(lines) when there is none.
ClosingFence(a) ==
    Min({j \in (a + 1)..(Len(lines) - 1) : IsFenceLine(j)} \cup {Len(lines)})

\* C8: a code block opened at line a takes every line up to the next fence
\* line (or the end of the input) as one insertText, each line followed by a
\* newline; its iteration pushes that insertText and the code style only, the
\* taken lines and the closing fence push nothing, the cursor advances by the
\* length of the text, and the loop resumes after the closing fence.
C8_CodeBlockTakesLinesToClosingFence ==
    Lines =>
    \A k \in Inserts :
        emittedAt[k].kind = "code"
        => LET a == emittedAt[k].line
               j == ClosingFence(a)
               content == Flatten([n \in 1..(j - a - 1) |->
                                      lines[a + n + 1] \o <<NL>>])
           IN  /\ requests[k].text = content
               /\ requests[k].index = emittedAt[k].cursor
               /\ PushedAt(a) = {k, k + 1}
               /\ requests[k + 1].op = "updateTextStyle"
               /\ requests[k + 1].startIndex = emittedAt[k].cursor
               /\ requests[k + 1].endIndex = emittedAt[k].cursor + Len(content)
               /\ \A n \in (a + 1)..j : PushedAt(n) = {}
               /\ i > j
               /\ k + 1 = Len(requests)
                    => (index = emittedAt[k].cursor + Len(content) /\ i = j + 1)
               /\ k + 1 < Len(requests)
                    => /\ emittedAt[k + 2].cursor = emittedAt[k].cursor + Len(content)
                       /\ emittedAt[k + 2].line = j + 1

\* C8 witness: a finished conversion with a code block of two lines or more
\* that a fence closes, with a line after the closing fence that pushed its
\* own requests.
C8_Witness ==
    /\ Lines /\ pc = "done"
    /\ \E k \in Inserts :
          /\ emittedAt[k].kind = "code"
          /\ ClosingFence(emittedAt[k].line) >= emittedAt[k].line + 3
          /\ ClosingFence(emittedAt[k].line) < Len(lines) - 1
          /\ k + 1 < Len(requests)
          /\ Len(requests[k].text) >= 4

\* C9 as claimed: a line that the loop handles (one outside every code block
\* taken so far) and that starts, trimmed, with the fence is never pushed as
\* a paragraph: it opens a code block.
C9_FenceLineNeverParagraph ==
    Lines =>
    \A k \in 1..Len(requests) :
        IsFenceLine(emittedAt[k].line) => emittedAt[k].kind = "code"

\* The text a block inserted, without its final newline.
BlockText(k) == SubSeq(requests[k].text, 1, Len(requests[k].text) - 1)

InlineFields == {"bold", "italic", "link"}

\* C10 as claimed: the inline spans of a heading's and of a list item's text
\* get their updateTextStyle, offset by the block's cursor and pushed after
\* the block's paragraph-style or bullet request; code text gets none.
C10_InlineStylesForHeadingsAndLists ==
    Lines =>
    /\ \A k \in Inserts :
          emittedAt[k].kind \in {"heading", "bulleted", "numbered"}
          => LET want == ProcessInlineFormatting(BlockText(k), emittedAt[k].cursor, 0)
             IN  \A w \in 1..Len(want) :
                    \E m \in PushedAt(emittedAt[k].line) :
                        m > k + 1 /\ requests[m] = want[w]
    /\ \A k \in 1..Len(requests) :
          emittedAt[k].kind = "code"
          => ~(requests[k].op = "updateTextStyle"
               /\ requests[k].fields \in InlineFields)


\* The item text of a numbered list line: what follows the marker's dot and
\* the white space after it (the last character when only white space
\* follows the dot).
ItemText(line) ==
    LET dot == Min({p \in 1..Len(line) : line[p] = "."})
        rest == {p \in (dot + 1)..Len(line) : line[p] \notin WhiteSpace}
    IN  SubSeq(line, IF rest = {} THEN Len(line) ELSE Min(rest), Len(line))

\* The cursor after the iteration that pushed request k: the cursor at which
\* the next iteration pushed, the current cursor when there is none yet.
CursorAfter(k) ==
    LET later == {m \in 1..Len(requests) : emittedAt[m].line > emittedAt[k].line}
    IN  IF later = {} THEN index ELSE emittedAt[Min(later)].cursor

\* The insertText requests of the line-based converter's numbered list lines.
NumberedInserts == {k \in Inserts : Lines /\ emittedAt[k].kind = "numbered"}

\* The insertText requests of the marked-based converter's ordered list items.
OrderedItemInserts ==
    {k \in Inserts :
        /\ converter = "marked"
        /\ emittedAt[k].kind = "listItem"
        /\ elements[emittedAt[k].line + 1].ordered = "true"}

\* The prefix of the n-th ordered item.
OrdinalPrefix(n) == Decimal(n) \o <<".", " ">>

\* Request k inserts prefix + text + newline at the cursor, the request after
\* it ranges over prefix + text, and the cursor then advances past all three.
InsertsItem(k, prefix, text) ==
    /\ requests[k].text = prefix \o text \o <<NL>>
    /\ requests[k].index = emittedAt[k].cursor
    /\ requests[k + 1].startIndex = emittedAt[k].cursor
    /\ requests[k + 1].endIndex = emittedAt[k].cursor + Len(prefix) + Len(text)
    /\ CursorAfter(k) = emittedAt[k].cursor + Len(prefix) + Len(text) + 1

\* C7 as claimed: every numbered list item is inserted with the prefix of its
\* ordinal, one more than the number of ordered items before it.
C7_NumberedItemsCarryOrdinalPrefix ==
    /\ \A k \in NumberedInserts :
          InsertsItem(k,
              OrdinalPrefix(1 + Cardinality({m \in NumberedInserts : m < k})),
              ItemText(LineOf(k)))
    /\ \A k \in OrderedItemInserts :
          InsertsItem(k,
              OrdinalPrefix(1 + Cardinality({m \in OrderedItemInserts : m < k})),
              elements[emittedAt[k].line + 1].text)

\* C7 amended: the line-based converter inserts a numbered list line as its
\* item text and a newline, with no prefix (so whatever number the source
\* wrote), under NUMBERED_DECIMAL_NESTED bullets that range over the item
\* text, and advances the cursor by the text's length plus 1; the
\* marked-based converter inserts an ordered list item with the prefix of
\* its ordinal, one more than the number of ordered items before it, styles
\* prefix and text, and advances the cursor past prefix, text and newline.
C7_NumberedItemsPrefixOnlyInMarked ==
    /\ \A k \in NumberedInserts :
          /\ InsertsItem(k, <<>>, ItemText(LineOf(k)))
          /\ requests[k + 1].op = "createParagraphBullets"
          /\ requests[k + 1].bulletPreset = "NUMBERED_DECIMAL_NESTED"
    /\ \A k \in OrderedItemInserts :
          /\ InsertsItem(k,
                OrdinalPrefix(1 + Cardinality({m \in OrderedItemInserts : m < k})),
                elements[emittedAt[k].line + 1].text)
          /\ requests[k + 1].op = "updateParagraphStyle"

\* C7 witness: a finished line-based conversion of three numbered lines whose
\* written numbers are not 1, 2, 3.
C7_Witness ==
    /\ Lines /\ pc = "done"
    /\ Cardinality(NumberedInserts) = 3
    /\ lines[1][1] = "9" /\ lines[2][1] = "9" /\ lines[3][1] = "1"
    /\ index = 7

\* Three ordered items of the marked-based converter, numbered 1, 2, 3.
C7_MarkedReached ==
    /\ converter = "marked" /\ pc = "done"
    /\ Cardinality(OrderedItemInserts) = 3

\* The requests the iteration of line a pushed, in order.
RequestsOf(a) ==
    LET ks == PushedAt(a)
    IN  IF ks = {} THEN <<>>
        ELSE SubSeq(requests, Min(ks), Min(ks) + Cardinality(ks) - 1)

\* The lines (0-based) the loop handled as paragraphs.
ParagraphLines ==
    {a \in 0..(Len(lines) - 1) :
        \E k \in PushedAt(a) : emittedAt[k].kind = "paragraph"}

\* C11 as claimed: a paragraph whose italic detection threw has its
\* insertText, all its bold requests and all its link requests but no italic
\* request; the loop goes on after it, and every other paragraph has all its
\* italic requests.
C11_ItalicThrowSkipsItalicsOfTheBlock ==
    Lines =>
      \A a \in ParagraphLines :
        LET at == emittedAt[Min(PushedAt(a))].cursor
            text == lines[a + 1]
        IN  /\ i > a
            /\ RequestsOf(a) =
                  <<InsertText(text \o <<NL>>, at)>>
                      \o BoldRequests(text, at, 0)
                      \o (IF a \in thrown THEN <<>>
                          ELSE ItalicRequests(text, at, 0))
                      \o LinkRequests(text, at, 0)

\* The reads of the loop so far are the lines 0 .. i - 1, each once and in
\* order; a content line or a closing fence follows the opening fence or a
\* content line of its block, and nothing follows a block's closing fence
\* but a new block.
ConsumedOnce ==
    /\ i <= Len(lines) + 1
    /\ Len(consumed) = (IF i > Len(lines) THEN Len(lines) ELSE i)
    /\ \A k \in 1..Len(consumed) :
          /\ consumed[k].line = k - 1
          /\ consumed[k].as \in {"content", "close"}
                => k > 1 /\ consumed[k - 1].as \in {"open", "content"}
          /\ (k > 1 /\ consumed[k - 1].as \in {"open", "content"})
                => consumed[k].as \in {"content", "close"}
    /\ pc = "done" => Len(consumed) = Len(lines)

\* C12: convertMarkdownToRequests goes through every document to its return:
\* every iteration of its loop moves the line index forward, past the closing
\* fence after a code block and also when an italic detection threw, and the
\* index is bounded by the number of lines; the lines read so far are each
\* read exactly once, as a block of their own or as the opening fence, a
\* content line or the closing fence of one code block, and all of them are
\* read when the function returns.
C12_ReturnsHavingConsumedEveryLineOnce ==
    /\ [](Lines => ConsumedOnce)
    /\ [][(Lines /\ pc' = "loop") => i' > i]_vars

\* A document with a code block of two content lines between its fences and
\* a paragraph after it whose italic detection threw, converted to the end.
C12_Witness ==
    /\ Lines /\ pc = "done"
    /\ \E k \in 1..(Len(consumed) - 4) :
          /\ consumed[k].as = "open"
          /\ consumed[k + 1].as = "content"
          /\ consumed[k + 2].as = "content"
          /\ consumed[k + 3].as = "close"
          /\ consumed[k + 4].as = "paragraph"
          /\ consumed[k + 4].line \in thrown

\* The two converters that emit from the elements the renderer collected.
Renderers == converter \in {"marked", "class"}

\* The elements (0-based) the emission loop has gone through.
Emitted == IF Renderers /\ pc \in {"emit", "done"} THEN 0..(i - 1) ELSE {}

\* C13: in both renderer-based converters an image element makes the loop
\* push exactly one request and go on: an insertText at the cursor of that
\* moment whose text is "[Image: ", the alt text or, when that is empty, the
\* URL, and "]" with a newline; the cursor then stands that text's length
\* further, which is where the next element's text is inserted.
C13_ImageBecomesOnePlaceholderInsert ==
    \A e \in Emitted :
       elements[e + 1].type = "image" =>
          LET el == elements[e + 1]
              shown == IF el.text # <<>> THEN el.text ELSE el.href
              placeholder == <<"[", "I", "m", "a", "g", "e", ":", " ">>
                                 \o shown \o <<"]", NL>>
          IN  /\ Cardinality(PushedAt(e)) = 1
              /\ \A k \in PushedAt(e) :
                    /\ requests[k] = InsertText(placeholder, emittedAt[k].cursor)
                    /\ CursorAfter(k) = emittedAt[k].cursor + Len(placeholder)
                    /\ k < Len(requests) =>
                          /\ requests[k + 1].op = "insertText"
                          /\ requests[k + 1].index
                                = requests[k].index + Len(placeholder)

\* The class-based converter has emitted an image without alt text and the
\* element after it.
C13_Witness ==
    /\ converter = "class" /\ pc = "done"
    /\ \E e \in Emitted :
          /\ elements[e + 1].type = "image"
          /\ elements[e + 1].text = <<>>
          /\ e + 1 \in Emitted

\* The marked-based converter has emitted an image with alt text and the
\* element after it.
C13_MarkedReached ==
    /\ converter = "marked" /\ pc = "done"
    /\ \E e \in Emitted :
          /\ elements[e + 1].type = "image"
          /\ elements[e + 1].text # <<>>
          /\ e + 1 \in Emitted

Http == converter = "http"

\* A field that is missing or empty.
Absent(v) == v.type \in {"undefined", "null"} \/ v = Str(<<>>)

\* A body the claim calls invalid: docName or markdown missing or empty,
\* credentials missing, or no access_token in them (an empty one is none).
Invalid(body) ==
    \/ Absent(body.docName)
    \/ Absent(body.markdown)
    \/ Absent(body.credentials)
    \/ Absent(AccessToken(body.credentials))

\* C14: for an invalid body the handler invokes neither collaborator and
\* its response is 400, with or without the validators in front of it;
\* processMarkdown is the first collaborator invoked, and createGoogleDoc is
\* invoked only right after processMarkdown has returned: when processMarkdown
\* throws the response is 500 and createGoogleDoc is not invoked.
C14_ConversionOnlyAfterValidation ==
    Http =>
      /\ Invalid(req) =>
            /\ calls = <<>>
            /\ pc = "responded" => res = 400
      /\ calls # <<>> => calls[1] = "processMarkdown"
      /\ \A k \in 1..Len(calls) :
            /\ calls[k] = "createGoogleDoc" =>
                  k = 3 /\ calls[2] = "processMarkdown returned"
            /\ calls[k] = "processMarkdown threw" =>
                  k = Len(calls) /\ res = 500

\* The handler itself, without the validators in front of it (which would
\* have trimmed the document name), has answered 400 to a body without
\* markdown.
C14_Witness ==
    /\ Http /\ pc = "responded"
    /\ req.docName = Str(<<" ">>)
    /\ req.markdown = Undefined
    /\ res = 400

\* A valid body went through the validators and the handler to a created
\* document.
C14_CreatedReached ==
    /\ Http /\ pc = "responded" /\ res = 201
    /\ calls = <<"processMarkdown", "processMarkdown returned", "createGoogleDoc">>

\* C15 as claimed: in the class-based converter the cursor is 1 plus the
\* length of all text inserted so far, after elements of every kind, and
\* every insertText is located at 1 plus the length of the text inserted
\* before it, which is also where the style range that follows it starts.
C15_ClassCursorIsInsertedLength ==
    (converter = "class" /\ pc \in {"emit", "done"}) =>
      /\ index = 1 + InsertedLen(requests)
      /\ \A k \in Inserts : requests[k].index = 1 + InsertedLen(Before(k))
      /\ \A k \in Ranged :
            requests[k].startIndex = 1 + InsertedLen(Before(k - 1))

\* C16 as claimed: no request of the line-based converter is degenerate:
\* every insertText has text and every range has startIndex < endIndex.
C16_EveryRequestNonDegenerate ==
    Lines =>
      /\ \A k \in Inserts : requests[k].text # <<>>
      /\ \A k \in Ranged : requests[k].startIndex < requests[k].endIndex

=============================================================================
